---- MODULE Spec2Model ----
(***************************************************************************)
(* State-machine model of bin/github-workflow.js: the GitHub Projects      *)
(* workflow commands new-idea, new-task and next-task.  The file holds two *)
(* revisions of the script: the latest, non-interactive one (lines 1-519,  *)
(* project identifier from GITHUB_PROJECT_ID or .env) and the earlier,     *)
(* interactive one (lines 520-819, project number in .github-variables).   *)
(* Every external call (gh, git, fs, GraphQL, REST, prompt) is one step.   *)
(***************************************************************************)
EXTENDS Integers, Sequences, FiniteSets

\* ------------------------------------------------------------------ bounds
MaxTail == 2       \* items of a board after its filler prefix
MaxLines == 2      \* lines of the config file
MaxRuns == 2       \* invocations in a sequence of runs
MaxTitle == 3      \* characters of an item title drawn from TitleChars

\* ------------------------------------------------------- program constants
FetchLimit == 50   \* items(first: 50, ...)

\* ----------------------------------------------------------------- strings
\* A string is a sequence of one-character strings.
Whitespace == {" ", "\t"}
Digits == {"0", "1", "2", "3", "4", "5", "6", "7", "8", "9"}
Lower == {"a", "b", "c", "d", "e", "f", "g", "h", "i", "j", "k", "l", "m",
          "n", "o", "p", "q", "r", "s", "t", "u", "v", "w", "x", "y", "z"}
Upper == {"A", "B", "C", "D", "E", "F", "G", "H", "I", "J", "K", "L", "M",
          "N", "O", "P", "Q", "R", "S", "T", "U", "V", "W", "X", "Y", "Z"}

UpperOf == [c \in Lower |->
  CASE c = "a" -> "A" [] c = "b" -> "B" [] c = "c" -> "C" [] c = "d" -> "D"
    [] c = "e" -> "E" [] c = "f" -> "F" [] c = "g" -> "G" [] c = "h" -> "H"
    [] c = "i" -> "I" [] c = "j" -> "J" [] c = "k" -> "K" [] c = "l" -> "L"
    [] c = "m" -> "M" [] c = "n" -> "N" [] c = "o" -> "O" [] c = "p" -> "P"
    [] c = "q" -> "Q" [] c = "r" -> "R" [] c = "s" -> "S" [] c = "t" -> "T"
    [] c = "u" -> "U" [] c = "v" -> "V" [] c = "w" -> "W" [] c = "x" -> "X"
    [] c = "y" -> "Y" [] c = "z" -> "Z"]

\* String.prototype.toLowerCase / toUpperCase on one character
ToLowerChar(c) ==
  IF c \in Upper THEN CHOOSE l \in Lower : UpperOf[l] = c ELSE c

ToUpperChar(c) == IF c \in Lower THEN UpperOf[c] ELSE c

\* \w of a JavaScript regular expression
IsWordChar(c) == c \in Lower \cup Upper \cup Digits \cup {"_"}

\* String.prototype.includes
Includes(s, sub) ==
  \E i \in 0..(Len(s) - Len(sub)) : SubSeq(s, i + 1, i + Len(sub)) = sub

RECURSIVE TrimStart(_)
TrimStart(s) ==
  IF s # <<>> /\ Head(s) \in Whitespace THEN TrimStart(Tail(s)) ELSE s

RECURSIVE TrimEnd(_)
TrimEnd(s) ==
  IF s # <<>> /\ s[Len(s)] \in Whitespace
  THEN TrimEnd(SubSeq(s, 1, Len(s) - 1)) ELSE s

\* String.prototype.trim
Trim(s) == TrimEnd(TrimStart(s))

\* the longest prefix of s made of digits: the capture of (\d+)
RECURSIVE DigitPrefix(_)
DigitPrefix(s) ==
  IF s # <<>> /\ Head(s) \in Digits
  THEN <<Head(s)>> \o DigitPrefix(Tail(s)) ELSE <<>>

DigitValue(c) ==
  CASE c = "0" -> 0 [] c = "1" -> 1 [] c = "2" -> 2 [] c = "3" -> 3
    [] c = "4" -> 4 [] c = "5" -> 5 [] c = "6" -> 6 [] c = "7" -> 7
    [] c = "8" -> 8 [] c = "9" -> 9

\* parseInt(s, 10) of a non-empty string of digits
RECURSIVE ParseInt(_)
ParseInt(s) ==
  IF s = <<>> THEN 0
  ELSE 10 * ParseInt(SubSeq(s, 1, Len(s) - 1)) + DigitValue(s[Len(s)])

\* the least index of a set of indices, 0 when it is empty: the index of
\* what Array.prototype.find returns, with 0 standing for undefined
First(S) == IF S = {} THEN 0 ELSE CHOOSE i \in S : \A j \in S : i <= j

\* ------------------------------------------------------------ credentials
TokenScopesMarker == <<"T", "o", "k", "e", "n", " ", "s", "c", "o", "p", "e", "s", ":">>
ProjectScope == <<"p", "r", "o", "j", "e", "c", "t">>
ReadProjectScope == <<"r", "e", "a", "d", ":", "p", "r", "o", "j", "e", "c", "t">>
RepoScope == <<"r", "e", "p", "o">>

RECURSIVE JoinScopes(_)
JoinScopes(scopes) ==
  IF scopes = <<>> THEN <<>>
  ELSE <<" ", "'">> \o Head(scopes) \o <<"'">>
       \o (IF Len(scopes) > 1 THEN <<",">> ELSE <<>>) \o JoinScopes(Tail(scopes))

\* What `gh auth status` writes to stdout for a token with these scopes: the
\* account line, and the scopes line when gh prints one to stdout.
GhStatusOutput(printsScopes, scopes) ==
  << <<"a", "c", "c", "o", "u", "n", "t", " ", "o", "c", "t", "o", "c", "a", "t">> >>
  \o (IF printsScopes
      THEN << <<" ", "-", " ">> \o TokenScopesMarker \o JoinScopes(scopes) >>
      ELSE <<>>)

HasTokenScopes(line) == Includes(line, TokenScopesMarker)

\* checkAndAddScopes, lines 50-65: what the scope check decides from stdout
ScopeCheck(stdout) ==
  LET i == First({k \in 1..Len(stdout) : HasTokenScopes(stdout[k])}) IN
  IF i # 0 /\ ~Includes(stdout[i], ProjectScope) THEN "refresh"
  ELSE IF i = 0 THEN "unparsed"
  ELSE "ok"

\* ---------------------------------------------------------- configuration
KeyProjectId == <<"G", "I", "T", "H", "U", "B", "_", "P", "R", "O", "J", "E", "C", "T", "_", "I", "D", "=">>
KeyProjectNumber == <<"P", "R", "O", "J", "E", "C", "T", "_", "N", "U", "M", "B", "E", "R", "=">>

StartsWith(s, pre) == Len(s) >= Len(pre) /\ SubSeq(s, 1, Len(pre)) = pre

IsProjectIdLine(line) == StartsWith(line, KeyProjectId)

\* getProjectId, lines 117-120: /^GITHUB_PROJECT_ID=(.*)$/m and trim; the
\* empty string when there is no match
MatchProjectId(lines) ==
  LET i == First({k \in 1..Len(lines) : IsProjectIdLine(lines[k])}) IN
  IF i = 0 THEN <<>>
  ELSE Trim(SubSeq(lines[i], Len(KeyProjectId) + 1, Len(lines[i])))

\* the positions of a line where /PROJECT_NUMBER=(\d+)/ matches
NumberMatches(line) ==
  {p \in 1..Len(line) :
     /\ p + Len(KeyProjectNumber) <= Len(line)
     /\ SubSeq(line, p, p + Len(KeyProjectNumber) - 1) = KeyProjectNumber
     /\ line[p + Len(KeyProjectNumber)] \in Digits}

HasProjectNumber(line) == NumberMatches(line) # {}

\* getProjectNumber, lines 652-653: the number matched, 0 when none (the
\* code returns then only `if (match)`)
MatchProjectNumber(lines) ==
  LET i == First({k \in 1..Len(lines) : HasProjectNumber(lines[k])}) IN
  IF i = 0 THEN [found |-> FALSE, number |-> 0]
  ELSE LET p == First(NumberMatches(lines[i]))
       IN [found |-> TRUE,
           number |-> ParseInt(DigitPrefix(
             SubSeq(lines[i], p + Len(KeyProjectNumber), Len(lines[i]))))]

\* `PROJECT_NUMBER=${projectNumber}\n`, lines 682 and 687
DigitOf(n) == CHOOSE c \in Digits : DigitValue(c) = n

RECURSIVE Decimal(_)
Decimal(n) ==
  IF n < 10 THEN <<DigitOf(n)>> ELSE Decimal(n \div 10) \o <<DigitOf(n % 10)>>

\* as ConfigText, the number written without its key
ConfigTextNoKey(projectNumber) == << Decimal(projectNumber) >>

ConfigText(projectNumber) == << KeyProjectNumber \o Decimal(projectNumber) >>

\* the node id of project number n on the remote service
NodeId(n) == <<"P">> \o Decimal(n)

\* ------------------------------------------------------------ branch name
RECURSIVE LowerCase(_)
LowerCase(s) ==
  IF s = <<>> THEN <<>> ELSE <<ToLowerChar(Head(s))>> \o LowerCase(Tail(s))

\* as HyphenateSpaces, a hyphen for every whitespace character
RECURSIVE HyphenateEachSpace(_)
HyphenateEachSpace(s) ==
  IF s = <<>> THEN <<>>
  ELSE <<IF Head(s) \in Whitespace THEN "-" ELSE Head(s)>>
       \o HyphenateEachSpace(Tail(s))

\* .replace(/\s+/g, "-")
RECURSIVE HyphenateSpaces(_)
HyphenateSpaces(s) ==
  IF s = <<>> THEN <<>>
  ELSE IF Head(s) \in Whitespace
       THEN <<"-">> \o HyphenateSpaces(TrimStart(s))
       ELSE <<Head(s)>> \o HyphenateSpaces(Tail(s))

\* .replace(/[^\w-]+/g, "")
RECURSIVE StripNonWord(_)
StripNonWord(s) ==
  IF s = <<>> THEN <<>>
  ELSE (IF IsWordChar(Head(s)) \/ Head(s) = "-" THEN <<Head(s)>> ELSE <<>>)
       \o StripNonWord(Tail(s))

\* nextTask, lines 476-479
BranchName(title) == StripNonWord(HyphenateSpaces(LowerCase(title)))

\* main dispatcher, line 496
Capitalize(title) ==
  IF title = <<>> THEN title ELSE <<ToUpperChar(Head(title))>> \o Tail(title)

\* args.join(" "), line 493
RECURSIVE JoinArgs(_)
JoinArgs(args) ==
  IF args = <<>> THEN <<>>
  ELSE Head(args) \o (IF Len(args) > 1 THEN <<" ">> ELSE <<>>) \o JoinArgs(Tail(args))

\* ------------------------------------------------------------------ state
VARIABLES
  rev,            \* which revision of the script runs: "latest" or "legacy"
  envId,          \* process.env.GITHUB_PROJECT_ID, <<>> when unset
  cfg,            \* the config file (.env / .github-variables): state, lines
  origin,         \* the origin remote: "github", "other" or "none"
  ghPrints,       \* whether gh auth status prints a scopes line to stdout
  ghScopes,       \* the scopes of the gh session's token
  projects,       \* the numbers of the repository's open projects
  field,          \* the Status field of each project
  board,          \* the items of each project, in board position order
  issues,         \* the number of issues of the repository
  branch,         \* the checked-out branch of the working tree
  branches,       \* the local branches
  budget,         \* how many invocations the user makes
  runs,           \* invocations started so far
  cmd,            \* process.argv[2] of the current invocation
  args,           \* process.argv.slice(3)
  title,          \* the title the dispatcher passes to the command
  todo,           \* the steps the invocation has still to take; <<>>: no run
  exitCode,       \* the exit code of the last run, -1 while there is none
  log,            \* the external calls and console lines of this run
  gqlTok,         \* _graphqlWithAuth: the token of the cached client, 0 none
  restTok,        \* _octokit: the token of the cached client, 0 none
  projectId,      \* latest: the resolved project identifier
  projectNumber,  \* legacy: the resolved project number
  listed,         \* the projects the list query returned
  project,        \* the project the query returned
  todoItem,       \* next-task: the item found
  projectItem,    \* the id of the item the run added
  issue           \* the number of the issue the run created

world == <<rev, envId, cfg, origin, ghPrints, ghScopes, projects, field, board,
           issues, branch, branches, budget>>
run == <<runs, cmd, args, title, todo, exitCode, log, gqlTok, restTok,
         projectId, projectNumber, listed, project, todoItem, projectItem, issue>>
vars == <<world, run>>

NumProjects == 2
ProjNums == 1..NumProjects
NumTokens == 2
Tokens == 1..NumTokens

OptionNames == {"Todo", "In Progress", "Done", "Backlog"}
NoField == [kind |-> "none", options |-> {}]
TextField == [kind |-> "text", options |-> {}]
SelectField(opts) == [kind |-> "select", options |-> opts]

NoItem == [id |-> 0, status |-> "none", kind |-> "none", title |-> <<>>,
           body |-> FALSE, issue |-> 0]
NoProject == [number |-> 0, field |-> NoField, items |-> <<>>]

Ev(op, ok, n, s, tok) == [op |-> op, ok |-> ok, n |-> n, s |-> s, tok |-> tok]
Call(op, ok, n, s) == Ev(op, ok, n, s, 0)
Say(s, n) == Ev("print", TRUE, n, s, 0)

\* ----------------------------------------------------------- initial states
TitleFix == <<"F", "i", "x", " ", "B", "u", "g", "!">>
TitleCache == <<"A", "d", "d", " ", " ", "c", "a", "c", "h", "e">>
TitleWip == <<"w", "i", "p">>
TitleOld == <<"o", "l", "d">>

ItemKinds == {
  [status |-> "Todo", kind |-> "issue", title |-> TitleFix, body |-> TRUE],
  [status |-> "Todo", kind |-> "draft", title |-> TitleCache, body |-> FALSE],
  [status |-> "Todo", kind |-> "none", title |-> <<>>, body |-> FALSE],
  [status |-> "In Progress", kind |-> "issue", title |-> TitleWip, body |-> FALSE],
  [status |-> "none", kind |-> "draft", title |-> TitleWip, body |-> FALSE]}

Filler == [status |-> "Done", kind |-> "issue", title |-> TitleOld, body |-> FALSE]

Paddings == {0, FetchLimit - 1, FetchLimit}

Tails(n) == UNION {[1..k -> ItemKinds] : k \in 0..n}

\* a board: `pad` filler items, then the tail; ids follow the position
MkBoard(pad, tail) ==
  [i \in 1..(pad + Len(tail)) |->
     LET k == IF i <= pad THEN Filler ELSE tail[i - pad] IN
     [id |-> i, status |-> k.status, kind |-> k.kind, title |-> k.title,
      body |-> k.body, issue |-> IF k.kind = "issue" THEN i ELSE 0]]

Boards(n) == {MkBoard(pad, tail) : pad \in Paddings, tail \in Tails(n)}

AllOptions == SelectField(OptionNames)
Fields == {NoField, TextField, AllOptions} \cup
          {SelectField(OptionNames \ {o}) : o \in OptionNames \ {"Done"}}

\* an item's status is an option of the board's field, or unset
Consistent(f, b) ==
  \A i \in 1..Len(b) : b[i].status \in f.options \cup {"none"}

CfgOk(lines) == [state |-> "ok", lines |-> lines]
CfgMissing == [state |-> "missing", lines |-> <<>>]
CfgUnreadable == [state |-> "unreadable", lines |-> <<>>]

CfgLineSet == {
  KeyProjectId \o <<" ", "P", "2", " ">>,
  KeyProjectId \o <<" ">>,
  <<"#">> \o KeyProjectId \o <<"P", "1">>,
  KeyProjectNumber \o <<"1">>,
  KeyProjectNumber \o <<"x">>,
  <<"O", "L", "D", "_">> \o KeyProjectNumber \o <<"0", "2", ";">>}

Cfgs(n) == {CfgMissing, CfgUnreadable} \cup
           {CfgOk(l) : l \in UNION {[1..k -> CfgLineSet] : k \in 0..n}}

GoodCfg == CfgOk(<< KeyProjectId \o <<"P", "1">>, KeyProjectNumber \o <<"1">> >>)

EnvIds == {<<>>, <<"P", "1">>}

ScopeLists == {<<>>, <<RepoScope>>, <<RepoScope, ProjectScope>>,
               <<ReadProjectScope, RepoScope>>}

OneTodo == MkBoard(0, << CHOOSE k \in ItemKinds : k.title = TitleFix >>)

World(revs, envs, cfgs, origins, prints, scopes, projs, fields, boards, n) ==
  /\ rev \in revs
  /\ envId \in envs
  /\ cfg \in cfgs
  /\ origin \in origins
  /\ ghPrints \in prints
  /\ ghScopes \in scopes
  /\ projects \in projs
  /\ \E f \in fields, b \in boards :
       /\ Consistent(f, b)
       /\ field = [p \in ProjNums |->
                     IF p \notin projects THEN NoField
                     ELSE IF p = 1 THEN f ELSE AllOptions]
       /\ board = [p \in ProjNums |->
                     IF p = 1 /\ p \in projects THEN b ELSE <<>>]
  /\ issues = Len(SelectSeq(board[1], LAMBDA it : it.kind = "issue"))
  /\ branch = <<"m", "a", "i", "n">>
  /\ branches = {branch}
  /\ budget = n

Revs == {"latest", "legacy"}
Configured == {GoodCfg}
Authorized == {<<RepoScope, ProjectScope>>}

\* boards and fields in full, the rest configured and authorized
BoardWorlds ==
  \/ World(Revs, {<<>>}, Configured, {"github"}, {TRUE}, Authorized,
           {{1, 2}}, {AllOptions}, Boards(MaxTail), 1)
  \/ World(Revs, {<<>>}, Configured, {"github"}, {TRUE}, Authorized,
           {{1, 2}}, Fields, Boards(1), 1)

\* the resolver's inputs in full
ResolverWorlds ==
  World(Revs, EnvIds, Cfgs(MaxLines), {"github"}, {TRUE}, Authorized,
        {{}, {1, 2}}, {AllOptions}, {OneTodo}, 1)

\* the credential bridge's and the repository locator's inputs in full
AuthWorlds ==
  World(Revs, {<<>>}, {GoodCfg, CfgMissing}, {"github", "other", "none"},
        BOOLEAN, ScopeLists, {{1, 2}}, {AllOptions}, {OneTodo}, 1)

\* sequences of invocations
TwoTodos(pad) ==
  MkBoard(pad, [i \in 1..2 |-> CHOOSE k \in ItemKinds :
                  k.title = IF i = 1 THEN TitleFix ELSE TitleCache])

SequenceWorlds ==
  World(Revs, {<<>>}, {GoodCfg, CfgMissing}, {"github"}, {TRUE}, Authorized,
        {{}, {1}}, {AllOptions}, {TwoTodos(0), TwoTodos(FetchLimit - 1)},
        MaxRuns)

\* item titles in full: every string of up to MaxTitle characters of
\* TitleChars, and two longer ones
TitleChars == {"A", "b", " ", "-", "!"}
TitleLogin == <<"F", "i", "x", " ", "t", "h", "e", " ", "L", "o", "g", "i", "n",
                " ", "B", "u", "g", "!", "!">>
TitleMixed == <<"\t", " ", "v", "2", "_", "\t", "X", "-", " ">>
Titles == UNION {[1..k -> TitleChars] : k \in 0..MaxTitle}
            \cup {TitleLogin, TitleMixed}

TitledBoard(t) ==
  MkBoard(0, <<[status |-> "Todo", kind |-> "issue", title |-> t,
                body |-> FALSE]>>)

TitleWorlds ==
  World({"latest"}, {<<"P", "1">>}, {CfgMissing}, {"github"}, {TRUE},
        Authorized, {{1, 2}}, {AllOptions}, {TitledBoard(t) : t \in Titles}, 1)

Idle ==
  /\ runs = 0
  /\ cmd = "" /\ args = <<>> /\ title = <<>>
  /\ todo = <<>> /\ exitCode = -1 /\ log = <<>>
  /\ gqlTok = 0 /\ restTok = 0
  /\ projectId = <<>> /\ projectNumber = 0
  /\ listed = {} /\ project = NoProject /\ todoItem = NoItem
  /\ projectItem = 0 /\ issue = 0

Init ==
  /\ \/ BoardWorlds \/ ResolverWorlds \/ AuthWorlds \/ SequenceWorlds
     \/ TitleWorlds
  /\ Idle

\* ------------------------------------------------------------ control flow
Rest == Tail(todo)

\* the run goes on with the steps `rest`; with none left the command has
\* returned and the process ends with exit code 0
Continue(l, rest) ==
  /\ log' = l
  /\ todo' = rest
  /\ exitCode' = IF rest = <<>> THEN 0 ELSE -1

\* process.exit(code)
Exit(l, code) ==
  /\ log' = l
  /\ todo' = <<>>
  /\ exitCode' = code

\* as Throw, the catch logging the error without process.exit(1)
ThrowNoExit(l, msg) == Exit(Append(l, Ev("stderr", TRUE, 0, msg, 0)), 0)

\* a thrown error reaches the dispatcher's catch, lines 515-518 / 816-819
Throw(l, msg) == Exit(Append(l, Ev("stderr", TRUE, 0, msg, 0)), 1)

\* getRepoInfo, lines 23-45
GetRepoInfoSteps == <<"getGitRoot", "getRemote">>

\* getProjectNumber up to the file read, lines 646-651
GetProjectNumberSteps == <<"getGitRoot", "readFile">>

\* the resolver once nothing is configured, lines 133-136 / 658-660
ListSteps == GetRepoInfoSteps \o <<"getAuthenticatedGraphql", "listProjects">>

\* createProjectAndSetupStatuses and the write, lines 678-683
CreateSteps ==
  <<"promptName", "createProject", "createField", "addOptions", "writeFile">>

\* as GitSteps, pulling before main is checked out
GitStepsPullFirst == <<"pull", "checkoutMain", "checkoutBranch">>

\* nextTask, lines 480-483 / 787-790
GitSteps == <<"checkoutMain", "pull", "checkoutBranch">>

\* newIdea, lines 173-264 / 691-709
NewIdeaSteps(r) ==
  IF r = "latest"
  THEN <<"getProjectId", "getAuthenticatedGraphql", "queryProject", "addDraft",
         "updateStatus">>
  ELSE GetRepoInfoSteps \o GetProjectNumberSteps
       \o <<"getAuthenticatedGraphql", "queryProject", "addDraft">>

\* as NewTaskSteps, adding the issue to the project twice
NewTaskStepsAddTwice(r) ==
  GetRepoInfoSteps
  \o (IF r = "latest" THEN <<"getProjectId">> ELSE GetProjectNumberSteps)
  \o <<"getOctokit", "getAuthenticatedGraphql", "createIssue", "queryProject",
       "addItem", "addItem">>
  \o (IF r = "latest" THEN <<"updateStatus">> ELSE <<>>)

\* newTask, lines 266-362 / 711-733
NewTaskSteps(r) ==
  IF r = "latest"
  THEN GetRepoInfoSteps
       \o <<"getProjectId", "getOctokit", "getAuthenticatedGraphql",
            "createIssue", "queryProject", "addItem", "updateStatus">>
  ELSE GetRepoInfoSteps \o GetProjectNumberSteps
       \o <<"getOctokit", "getAuthenticatedGraphql", "createIssue",
            "queryProject", "addItem">>

\* nextTask, lines 364-485 / 735-792
NextTaskSteps(r) ==
  IF r = "latest"
  THEN <<"getProjectId", "getAuthenticatedGraphql", "queryProject",
         "updateStatus">> \o GitSteps
  ELSE GetRepoInfoSteps \o GetProjectNumberSteps
       \o <<"getAuthenticatedGraphql", "queryProject", "updateStatus">>
       \o GitSteps

TitleCommands == {"new-idea", "new-task"}
Commands == TitleCommands \cup {"next-task", "status"}
ArgSets == {<<>>, << <<"a", "d", "d", " ", "c", "a", "c", "h", "i", "n", "g">> >>, << <<"a", "d", "d">>, <<"c", "a", "c", "h", "i", "n", "g">> >>}

\* the title the dispatcher hands to the command, lines 493-497 / 803, 807
TitleOf(r, c, a) ==
  IF r = "latest"
  THEN IF c \in TitleCommands /\ JoinArgs(a) # <<>>
       THEN Capitalize(JoinArgs(a)) ELSE JoinArgs(a)
  ELSE IF a = <<>> THEN <<>> ELSE a[1]

\* as OptionOf, next-task closing the task
OptionOfDone(c) ==
  CASE c = "new-idea" -> "Backlog"
    [] c = "new-task" -> "Todo"
    [] OTHER -> "Done"

\* the option each command sets
OptionOf(c) ==
  CASE c = "new-idea" -> "Backlog"
    [] c = "new-task" -> "Todo"
    [] OTHER -> "In Progress"

\* ------------------------------------------------------------- the resolver
\* as OverrideSteps, reading the config file whatever the override
OverrideIgnored(env) == GetProjectNumberSteps

\* getProjectId, lines 110-128: what the override decides
OverrideSteps(env) ==
  IF env # <<>> THEN <<>> ELSE GetProjectNumberSteps

\* as ReadOutcome, ignoring every read error in both revisions
ReadOutcomeSwallowAll(r, c) ==
  IF c.state # "ok" THEN [result |-> "unset", id |-> <<>>, number |-> 0]
  ELSE IF r = "latest"
  THEN [result |-> IF MatchProjectId(c.lines) # <<>> THEN "found" ELSE "unset",
        id |-> MatchProjectId(c.lines), number |-> 0]
  ELSE [result |-> IF MatchProjectNumber(c.lines).found THEN "found" ELSE "unset",
        id |-> <<>>, number |-> MatchProjectNumber(c.lines).number]

\* What reading the config file yields: result "found", "unset" (go on with
\* the remote listing) or "throw".  Latest, lines 113-128: any read error is
\* ignored.  Legacy, lines 650-656: only ENOENT is.
ReadOutcome(r, c) ==
  IF r = "latest"
  THEN LET id == IF c.state = "ok" THEN MatchProjectId(c.lines) ELSE <<>> IN
       [result |-> IF id # <<>> THEN "found" ELSE "unset",
        id |-> id, number |-> 0]
  ELSE IF c.state = "unreadable"
       THEN [result |-> "throw", id |-> <<>>, number |-> 0]
       ELSE LET m == IF c.state = "ok" THEN MatchProjectNumber(c.lines)
                     ELSE [found |-> FALSE, number |-> 0] IN
            [result |-> IF m.found THEN "found" ELSE "unset",
             id |-> <<>>, number |-> m.number]

\* ------------------------------------------------------ the project query
\* the project the query finds: node(id:) / projectV2(number:)
Lookup(r, id, number) ==
  IF r = "latest"
  THEN IF \E n \in projects : NodeId(n) = id
       THEN CHOOSE n \in projects : NodeId(n) = id ELSE 0
  ELSE IF number \in projects THEN number ELSE 0

\* items(first: 50, orderBy: {field: POSITION, direction: ASC})
Fetched(items) ==
  SubSeq(items, 1, IF Len(items) < FetchLimit THEN Len(items) ELSE FetchLimit)

\* as IsTodoTask, without the test of the content
IsTodoAnyContent(item) == item.status = "Todo"

IsTodoTask(item) == item.status = "Todo" /\ item.kind # "none"

\* as FindTodoItem, taking the last match instead of the first
FindLastTodoItem(items) ==
  LET S == {i \in 1..Len(items) : IsTodoTask(items[i])} IN
  IF S = {} THEN NoItem ELSE items[CHOOSE i \in S : \A j \in S : j <= i]

\* nextTask, lines 432-434 / 772: the item found, NoItem when none
FindTodoItem(items) ==
  LET i == First({k \in 1..Len(items) : IsTodoTask(items[k])}) IN
  IF i = 0 THEN NoItem ELSE items[i]

\* What the checks after the project query decide, "" when they pass:
\* lines 200-214, 298-312, 419-435, 701, 725, 764-773
ProjectError(r, c, p) ==
  IF p = NoProject THEN "Could not find Project"
  ELSE IF c = "next-task"
  THEN IF p.field.kind = "none" THEN "Project is missing the Status field"
       ELSE IF p.field.kind # "select" THEN "TypeError"
       ELSE IF "Todo" \notin p.field.options
               \/ "In Progress" \notin p.field.options
       THEN "Project is missing Todo or In Progress options"
       ELSE IF FindTodoItem(p.items) = NoItem
       THEN "No tasks found in the Todo column"
       ELSE ""
  ELSE IF r = "legacy" THEN ""
  ELSE IF p.field.kind # "select"
  THEN "Project is missing the Status field or it is not single select"
  ELSE IF OptionOf(c) \notin p.field.options
  THEN "Project is missing the option"
  ELSE ""

\* the remote service: set the status of one item of a board
SetStatus(items, id, option) ==
  [i \in 1..Len(items) |->
     IF items[i].id = id THEN [items[i] EXCEPT !.status = option]
     ELSE items[i]]

\* the remote service: a new item goes to the bottom of the board
NewItem(items, kind, t, n) ==
  [id |-> Len(items) + 1, status |-> "none", kind |-> kind, title |-> t,
   body |-> FALSE, issue |-> n]

\* ----------------------------------------------------------------- actions
At(step) == todo # <<>> /\ Head(todo) = step

\* the user runs the script once: `<program> <command> [args...]`
Invoke ==
  /\ todo = <<>>
  /\ runs < budget
  /\ \E c \in Commands, a \in ArgSets :
       /\ c \notin TitleCommands => a = <<>>
       /\ cmd' = c
       /\ args' = a
  /\ runs' = runs + 1
  /\ title' = <<>>
  /\ todo' = <<"checkAndAddScopes", "dispatch">>
  /\ exitCode' = -1
  /\ log' = <<>>
  /\ gqlTok' = 0 /\ restTok' = 0
  /\ projectId' = <<>> /\ projectNumber' = 0
  /\ listed' = {} /\ project' = NoProject /\ todoItem' = NoItem
  /\ projectItem' = 0 /\ issue' = 0
  /\ UNCHANGED world

\* checkAndAddScopes, lines 47-74: gh auth status and the scope check
AuthStatus ==
  /\ At("checkAndAddScopes")
  /\ \E r \in {"ok", "fail", "ENOENT"} :
       IF r = "ok"
       THEN LET l == Append(log, Call("gh auth status", TRUE, 0, ""))
                d == ScopeCheck(GhStatusOutput(ghPrints, ghScopes))
            IN CASE d = "refresh" ->
                      Continue(Append(l, Say("The project scope is missing", 0)),
                               <<"authRefresh">> \o Rest)
                 [] d = "unparsed" ->
                      Throw(l, "Could not determine token scopes")
                 [] OTHER -> Continue(l, Rest)
       ELSE Throw(Append(log, Call("gh auth status", FALSE, 0, r)),
                  IF r = "ENOENT" THEN "gh is not installed" ELSE "gh failed")
  /\ UNCHANGED <<world, runs, cmd, args, title, gqlTok, restTok, projectId,
                 projectNumber, listed, project, todoItem, projectItem, issue>>

\* checkAndAddScopes, lines 57-60: gh auth refresh -s project
AuthRefresh ==
  /\ At("authRefresh")
  /\ \E r \in {"ok", "fail", "ENOENT"} :
       IF r = "ok"
       THEN /\ ghScopes' = Append(ghScopes, ProjectScope)
            /\ Continue(Append(Append(log, Call("gh auth refresh", TRUE, 0, "")),
                               Say("Token refreshed successfully", 0)), Rest)
       ELSE /\ ghScopes' = ghScopes
            /\ Throw(Append(log, Call("gh auth refresh", FALSE, 0, r)),
                     IF r = "ENOENT" THEN "gh is not installed" ELSE "gh failed")
  /\ UNCHANGED <<rev, envId, cfg, origin, ghPrints, projects, field, board,
                 issues, branch, branches, budget>>
  /\ UNCHANGED <<runs, cmd, args, title, gqlTok, restTok, projectId,
                 projectNumber, listed, project, todoItem, projectItem, issue>>

\* the dispatcher, lines 492-514 / 799-815
Dispatch ==
  /\ At("dispatch")
  /\ title' = TitleOf(rev, cmd, args)
  /\ CASE cmd = "new-idea" ->
            IF title' = <<>> THEN Throw(log, "A title is required for a new idea")
            ELSE Continue(log, NewIdeaSteps(rev))
       [] cmd = "new-task" ->
            IF title' = <<>> THEN Throw(log, "A title is required for a new task")
            ELSE Continue(log, NewTaskSteps(rev))
       [] cmd = "next-task" -> Continue(log, NextTaskSteps(rev))
       [] OTHER -> Exit(Append(log, Say("Unknown command", 0)), 1)
  /\ UNCHANGED <<world, runs, cmd, args, gqlTok, restTok, projectId,
                 projectNumber, listed, project, todoItem, projectItem, issue>>

\* getGitRoot, lines 12-21: git rev-parse --show-toplevel, or exit 1
GetGitRoot ==
  /\ At("getGitRoot")
  /\ \E ok \in BOOLEAN :
       IF ok THEN Continue(Append(log, Call("git rev-parse", TRUE, 0, "")), Rest)
       ELSE Exit(Append(Append(log, Call("git rev-parse", FALSE, 0, "")),
                        Ev("stderr", TRUE, 0, "Not a git repository", 0)), 1)
  /\ UNCHANGED <<world, runs, cmd, args, title, gqlTok, restTok, projectId,
                 projectNumber, listed, project, todoItem, projectItem, issue>>

\* getRepoInfo, lines 25-44: git remote get-url origin and the URL match
GetRemote ==
  /\ At("getRemote")
  /\ \E ok \in BOOLEAN :
       IF ~ok \/ origin = "none"
       THEN Throw(Append(log, Call("git remote", FALSE, 0, "")),
                  "Could not get remote URL for origin")
       ELSE IF origin # "github"
       THEN Throw(Append(log, Call("git remote", TRUE, 0, "")),
                  "Could not parse repository owner and name")
       ELSE Continue(Append(log, Call("git remote", TRUE, 0, "")), Rest)
  /\ UNCHANGED <<world, runs, cmd, args, title, gqlTok, restTok, projectId,
                 projectNumber, listed, project, todoItem, projectItem, issue>>

\* getProjectId, lines 109-112 and 126-128: the override
GetProjectId ==
  /\ At("getProjectId")
  /\ projectId' = envId
  /\ Continue(log, OverrideSteps(envId) \o Rest)
  /\ UNCHANGED <<world, runs, cmd, args, title, gqlTok, restTok,
                 projectNumber, listed, project, todoItem, projectItem, issue>>

\* getProjectId, lines 113-131 / getProjectNumber, lines 650-656: the read
ReadFile ==
  /\ At("readFile")
  /\ LET o == ReadOutcome(rev, cfg)
         l == Append(log, Call("readFile", cfg.state = "ok", 0, cfg.state))
     IN /\ projectId' = o.id
        /\ projectNumber' = o.number
        /\ CASE o.result = "throw" -> Throw(l, "read error")
             [] o.result = "found" -> Continue(l, Rest)
             [] OTHER ->
                  Continue(IF rev = "latest"
                           THEN Append(l, Say("GITHUB_PROJECT_ID is not set", 0))
                           ELSE l,
                           ListSteps \o Rest)
  /\ UNCHANGED <<world, runs, cmd, args, title, gqlTok, restTok, listed,
                 project, todoItem, projectItem, issue>>

\* as GetAuthenticatedGraphql, without the test of the cached client
GetAuthenticatedGraphqlUncached ==
  /\ At("getAuthenticatedGraphql")
  /\ \E t \in Tokens \cup {0} :
       IF t = 0
       THEN /\ gqlTok' = gqlTok
            /\ Throw(Append(log, Call("gh auth token", FALSE, 0, "graphql")),
                     "Could not get GitHub authentication token")
       ELSE /\ gqlTok' = t
            /\ Continue(Append(log, Call("gh auth token", TRUE, t, "graphql")),
                        Rest)
  /\ UNCHANGED <<world, runs, cmd, args, title, restTok, projectId,
                 projectNumber, listed, project, todoItem, projectItem, issue>>

\* getAuthenticatedGraphql, lines 89-97, with getAuthToken, lines 76-87
GetAuthenticatedGraphql ==
  /\ At("getAuthenticatedGraphql")
  /\ IF gqlTok # 0
     THEN /\ gqlTok' = gqlTok
          /\ Continue(log, Rest)
     ELSE \E t \in Tokens \cup {0} :
            IF t = 0
            THEN /\ gqlTok' = gqlTok
                 /\ Throw(Append(log, Call("gh auth token", FALSE, 0, "graphql")),
                          "Could not get GitHub authentication token")
            ELSE /\ gqlTok' = t
                 /\ Continue(Append(log, Call("gh auth token", TRUE, t, "graphql")),
                             Rest)
  /\ UNCHANGED <<world, runs, cmd, args, title, restTok, projectId,
                 projectNumber, listed, project, todoItem, projectItem, issue>>

\* getOctokit, lines 99-105, with getAuthToken, lines 76-87
GetOctokit ==
  /\ At("getOctokit")
  /\ IF restTok # 0
     THEN /\ restTok' = restTok
          /\ Continue(log, Rest)
     ELSE \E t \in Tokens \cup {0} :
            IF t = 0
            THEN /\ restTok' = restTok
                 /\ Throw(Append(log, Call("gh auth token", FALSE, 0, "rest")),
                          "Could not get GitHub authentication token")
            ELSE /\ restTok' = t
                 /\ Continue(Append(log, Call("gh auth token", TRUE, t, "rest")),
                             Rest)
  /\ UNCHANGED <<world, runs, cmd, args, title, gqlTok, projectId,
                 projectNumber, listed, project, todoItem, projectItem, issue>>

\* the numbers of a set in ascending order: the order of the list's nodes
RECURSIVE Ascending(_)
Ascending(S) ==
  IF S = {} THEN <<>>
  ELSE LET m == CHOOSE x \in S : \A y \in S : x <= y
       IN <<m>> \o Ascending(S \ {m})

\* the lines the latest revision prints for the listed projects, lines 159-169
RECURSIVE ProjectLines(_)
ProjectLines(ns) ==
  IF ns = <<>> THEN <<>>
  ELSE <<Say("- ID", Head(ns))>> \o ProjectLines(Tail(ns))

Listing(S) ==
  IF S = {} THEN <<Ev("stderr", TRUE, 0, "No open projects found", 0)>>
  ELSE <<Say("Available Projects", 0)>> \o ProjectLines(Ascending(S))
       \o <<Say("Please set GITHUB_PROJECT_ID", 0)>>

\* as ExitsAfterListing, going on to the selection in both revisions
NeverExitsAfterListing(r) == FALSE

\* line 170: the latest revision ends the process once the list is printed
ExitsAfterListing(r) == r = "latest"

\* the list query; latest, lines 136-170: print and exit 1; legacy, lines
\* 660-686: go on to the prompts
ListProjects ==
  /\ At("listProjects")
  /\ \E ok \in BOOLEAN :
       IF ~ok
       THEN /\ listed' = listed
            /\ Throw(Append(log, Ev("listProjects", FALSE, 0, "", gqlTok)),
                     "request failed")
       ELSE LET l == Append(log, Ev("listProjects", TRUE, 0, "", gqlTok)) IN
            /\ listed' = projects
            /\ IF ExitsAfterListing(rev) THEN Exit(l \o Listing(projects), 1)
               ELSE Continue(l, (IF projects = {} THEN <<"promptCreate">>
                                 ELSE <<"promptSelect", "writeFile">>) \o Rest)
  /\ UNCHANGED <<world, runs, cmd, args, title, gqlTok, restTok, projectId,
                 projectNumber, project, todoItem, projectItem, issue>>

\* legacy, lines 673-677: the confirm prompt; declining exits 0
PromptCreate ==
  /\ At("promptCreate")
  /\ \E a \in {"yes", "no", "fail"} :
       CASE a = "yes" ->
              Continue(Append(log, Call("prompt", TRUE, 0, "create")),
                       CreateSteps \o Rest)
         [] a = "no" ->
              Exit(Append(Append(log, Call("prompt", TRUE, 0, "create")),
                          Say("Aborting. No project selected.", 0)), 0)
         [] OTHER ->
              Throw(Append(log, Call("prompt", FALSE, 0, "create")),
                    "prompt failed")
  /\ UNCHANGED <<world, runs, cmd, args, title, gqlTok, restTok, projectId,
                 projectNumber, listed, project, todoItem, projectItem, issue>>

\* legacy, line 679: the project name prompt
PromptName ==
  /\ At("promptName")
  /\ \E ok \in BOOLEAN :
       IF ok THEN Continue(Append(log, Call("prompt", TRUE, 0, "name")), Rest)
       ELSE Throw(Append(log, Call("prompt", FALSE, 0, "name")), "prompt failed")
  /\ UNCHANGED <<world, runs, cmd, args, title, gqlTok, restTok, projectId,
                 projectNumber, listed, project, todoItem, projectItem, issue>>

\* legacy, line 686: the project list prompt
PromptSelect ==
  /\ At("promptSelect")
  /\ \/ \E n \in listed :
          /\ projectNumber' = n
          /\ Continue(Append(log, Call("prompt", TRUE, n, "select")), Rest)
     \/ /\ projectNumber' = projectNumber
        /\ Throw(Append(log, Call("prompt", FALSE, 0, "select")), "prompt failed")
  /\ UNCHANGED <<world, runs, cmd, args, title, gqlTok, restTok, projectId,
                 listed, project, todoItem, projectItem, issue>>

\* createProjectAndSetupStatuses, lines 615-622: createProjectV2
CreateProject ==
  /\ At("createProject")
  /\ \E ok \in BOOLEAN :
       IF ok /\ ProjNums \ projects # {}
       THEN LET n == CHOOSE x \in ProjNums \ projects :
                       \A y \in ProjNums \ projects : x <= y
            IN /\ projects' = projects \cup {n}
               /\ projectNumber' = n
               /\ Continue(Append(Append(log,
                    Ev("createProject", TRUE, n, "", gqlTok)),
                    Say("Successfully created project", n)), Rest)
       ELSE /\ UNCHANGED <<projects, projectNumber>>
            /\ Throw(Append(log, Ev("createProject", FALSE, 0, "", gqlTok)),
                     "request failed")
  /\ UNCHANGED <<rev, envId, cfg, origin, ghPrints, ghScopes, field, board,
                 issues, branch, branches, budget>>
  /\ UNCHANGED <<runs, cmd, args, title, gqlTok, restTok, projectId, listed,
                 project, todoItem, projectItem, issue>>

\* createProjectAndSetupStatuses, lines 624-632: createProjectV2Field
CreateField ==
  /\ At("createField")
  /\ \E ok \in BOOLEAN :
       IF ok
       THEN /\ field' = [field EXCEPT ![projectNumber] = SelectField({})]
            /\ Continue(Append(Append(log,
                 Ev("createField", TRUE, projectNumber, "Status", gqlTok)),
                 Say("Created Status field", 0)), Rest)
       ELSE /\ field' = field
            /\ Throw(Append(log,
                 Ev("createField", FALSE, projectNumber, "Status", gqlTok)),
                 "request failed")
  /\ UNCHANGED <<rev, envId, cfg, origin, ghPrints, ghScopes, projects, board,
                 issues, branch, branches, budget>>
  /\ UNCHANGED <<runs, cmd, args, title, gqlTok, restTok, projectId,
                 projectNumber, listed, project, todoItem, projectItem, issue>>

\* createProjectAndSetupStatuses, lines 634-643: addProjectV2FieldOption x3
AddOptions ==
  /\ At("addOptions")
  /\ \E ok \in BOOLEAN :
       IF ok
       THEN /\ field' = [field EXCEPT ![projectNumber] =
                           SelectField({"Todo", "In Progress", "Done"})]
            /\ Continue(Append(Append(log,
                 Ev("addOptions", TRUE, projectNumber, "", gqlTok)),
                 Say("Added options to Status field", 0)), Rest)
       ELSE /\ field' = field
            /\ Throw(Append(log,
                 Ev("addOptions", FALSE, projectNumber, "", gqlTok)),
                 "request failed")
  /\ UNCHANGED <<rev, envId, cfg, origin, ghPrints, ghScopes, projects, board,
                 issues, branch, branches, budget>>
  /\ UNCHANGED <<runs, cmd, args, title, gqlTok, restTok, projectId,
                 projectNumber, listed, project, todoItem, projectItem, issue>>

\* legacy, lines 682 and 687: fs.writeFile of the config file
WriteFile ==
  /\ At("writeFile")
  /\ \E ok \in BOOLEAN :
       IF ok
       THEN /\ cfg' = CfgOk(ConfigText(projectNumber))
            /\ Continue(Append(log, Call("writeFile", TRUE, projectNumber, "")),
                        Rest)
       ELSE /\ cfg' = cfg
            /\ Throw(Append(log, Call("writeFile", FALSE, projectNumber, "")),
                     "write error")
  /\ UNCHANGED <<rev, envId, origin, ghPrints, ghScopes, projects, field, board,
                 issues, branch, branches, budget>>
  /\ UNCHANGED <<runs, cmd, args, title, gqlTok, restTok, projectId,
                 projectNumber, listed, project, todoItem, projectItem, issue>>

Main == <<"m", "a", "i", "n">>

\* newTask, lines 272-273 / 717-718: octokit.issues.create
CreateIssue ==
  /\ At("createIssue")
  /\ \E ok \in BOOLEAN :
       IF ok
       THEN /\ issues' = issues + 1
            /\ issue' = issues + 1
            /\ Continue(Append(Append(log,
                 Ev("createIssue", TRUE, issues + 1, "", restTok)),
                 Say("Created issue", issues + 1)), Rest)
       ELSE /\ UNCHANGED <<issues, issue>>
            /\ Throw(Append(log, Ev("createIssue", FALSE, 0, "", restTok)),
                     "request failed")
  /\ UNCHANGED <<rev, envId, cfg, origin, ghPrints, ghScopes, projects, field,
                 board, branch, branches, budget>>
  /\ UNCHANGED <<runs, cmd, args, title, gqlTok, restTok, projectId,
                 projectNumber, listed, project, todoItem, projectItem>>

\* the project query and the checks after it: lines 177-214, 275-312,
\* 368-437, 696-701, 720-725, 740-775
QueryProject ==
  /\ At("queryProject")
  /\ \E ok \in BOOLEAN :
       IF ~ok
       THEN /\ UNCHANGED <<project, todoItem>>
            /\ Throw(Append(log, Ev("queryProject", FALSE, 0, "", gqlTok)),
                     "request failed")
       ELSE LET n == Lookup(rev, projectId, projectNumber)
                p == IF n = 0 THEN NoProject
                     ELSE [number |-> n, field |-> field[n],
                           items |-> IF cmd = "next-task"
                                     THEN Fetched(board[n]) ELSE <<>>]
                e == ProjectError(rev, cmd, p)
                l == Append(log, Ev("queryProject", TRUE, n, "", gqlTok))
            IN /\ project' = p
               /\ todoItem' = IF cmd = "next-task" /\ e = ""
                              THEN FindTodoItem(p.items) ELSE todoItem
               /\ IF e # "" THEN Throw(l, e) ELSE Continue(l, Rest)
  /\ UNCHANGED <<world, runs, cmd, args, title, gqlTok, restTok, projectId,
                 projectNumber, listed, projectItem, issue>>

\* newIdea, lines 216-232 / 703-708: addProjectV2DraftIssue
AddDraft ==
  /\ At("addDraft")
  /\ \E ok \in BOOLEAN :
       IF ok
       THEN LET it == NewItem(board[project.number], "draft", title, 0) IN
            /\ board' = [board EXCEPT ![project.number] = Append(@, it)]
            /\ projectItem' = it.id
            /\ Continue(Append(Append(log,
                 Ev("addDraft", TRUE, it.id, "", gqlTok)),
                 Say("Created a new draft issue", it.id)), Rest)
       ELSE /\ UNCHANGED <<board, projectItem>>
            /\ Throw(Append(log, Ev("addDraft", FALSE, 0, "", gqlTok)),
                     "request failed")
  /\ UNCHANGED <<rev, envId, cfg, origin, ghPrints, ghScopes, projects, field,
                 issues, branch, branches, budget>>
  /\ UNCHANGED <<runs, cmd, args, title, gqlTok, restTok, projectId,
                 projectNumber, listed, project, todoItem, issue>>

\* newTask, lines 314-330 / 727-732: addProjectV2ItemById
AddItem ==
  /\ At("addItem")
  /\ \E ok \in BOOLEAN :
       IF ok
       THEN LET it == NewItem(board[project.number], "issue", title, issue) IN
            /\ board' = [board EXCEPT ![project.number] = Append(@, it)]
            /\ projectItem' = it.id
            /\ Continue(Append(Append(log,
                 Ev("addItem", TRUE, it.id, "", gqlTok)),
                 Say("Added issue to the project", issue)), Rest)
       ELSE /\ UNCHANGED <<board, projectItem>>
            /\ Throw(Append(log, Ev("addItem", FALSE, 0, "", gqlTok)),
                     "request failed")
  /\ UNCHANGED <<rev, envId, cfg, origin, ghPrints, ghScopes, projects, field,
                 issues, branch, branches, budget>>
  /\ UNCHANGED <<runs, cmd, args, title, gqlTok, restTok, projectId,
                 projectNumber, listed, project, todoItem, issue>>

\* the item whose status the command sets: lines 258, 356, 463 / 783
StatusTarget(c, found, added) == IF c = "next-task" THEN found.id ELSE added

\* what the command prints once the status is set: lines 263, 361, 468-474
StatusLines(r, c, found) ==
  IF c = "next-task"
  THEN <<Say("Moved task to In Progress", found.id)>>
       \o (IF r = "latest" /\ found.body
           THEN <<Say("Task Description", found.id)>> ELSE <<>>)
  ELSE <<Say("Set status", 0)>>

\* updateProjectV2ItemFieldValue: lines 234-262, 332-360, 439-467 / 777-783
UpdateStatus ==
  /\ At("updateStatus")
  /\ LET id == StatusTarget(cmd, todoItem, projectItem)
         o == OptionOf(cmd)
     IN \E ok \in BOOLEAN :
          IF ok
          THEN /\ board' = [board EXCEPT ![project.number] = SetStatus(@, id, o)]
               /\ Continue(Append(log, Ev("updateStatus", TRUE, id, o, gqlTok))
                           \o StatusLines(rev, cmd, todoItem), Rest)
          ELSE /\ board' = board
               /\ Throw(Append(log, Ev("updateStatus", FALSE, id, o, gqlTok)),
                        "request failed")
  /\ UNCHANGED <<rev, envId, cfg, origin, ghPrints, ghScopes, projects, field,
                 issues, branch, branches, budget>>
  /\ UNCHANGED <<runs, cmd, args, title, gqlTok, restTok, projectId,
                 projectNumber, listed, project, todoItem, projectItem, issue>>

\* nextTask, line 481 / 788: git checkout main
CheckoutMain ==
  /\ At("checkoutMain")
  /\ \E ok \in BOOLEAN :
       IF ok
       THEN /\ branch' = Main
            /\ Continue(Append(log, Call("git checkout main", TRUE, 0, "")), Rest)
       ELSE /\ branch' = branch
            /\ Throw(Append(log, Call("git checkout main", FALSE, 0, "")),
                     "git failed")
  /\ UNCHANGED <<rev, envId, cfg, origin, ghPrints, ghScopes, projects, field,
                 board, issues, branches, budget>>
  /\ UNCHANGED <<runs, cmd, args, title, gqlTok, restTok, projectId,
                 projectNumber, listed, project, todoItem, projectItem, issue>>

\* nextTask, line 482 / 789: git pull
Pull ==
  /\ At("pull")
  /\ \E ok \in BOOLEAN :
       IF ok THEN Continue(Append(log, Call("git pull", TRUE, 0, "")), Rest)
       ELSE Throw(Append(log, Call("git pull", FALSE, 0, "")), "git failed")
  /\ UNCHANGED <<world, runs, cmd, args, title, gqlTok, restTok, projectId,
                 projectNumber, listed, project, todoItem, projectItem, issue>>

\* nextTask, lines 476-484 / 786-791: git checkout -b <branchName>
CheckoutBranch ==
  /\ At("checkoutBranch")
  /\ LET name == BranchName(todoItem.title) IN
     \E ok \in BOOLEAN :
       IF ok /\ name # <<>> /\ name \notin branches
       THEN /\ branch' = name
            /\ branches' = branches \cup {name}
            /\ Continue(Append(Append(log,
                 Call("git checkout -b", TRUE, todoItem.id, "")),
                 Say("Created and switched to branch", todoItem.id)), Rest)
       ELSE /\ UNCHANGED <<branch, branches>>
            /\ Throw(Append(log, Call("git checkout -b", FALSE, todoItem.id, "")),
                     "git failed")
  /\ UNCHANGED <<rev, envId, cfg, origin, ghPrints, ghScopes, projects, field,
                 board, issues, budget>>
  /\ UNCHANGED <<runs, cmd, args, title, gqlTok, restTok, projectId,
                 projectNumber, listed, project, todoItem, projectItem, issue>>

Next ==
  \/ Invoke
  \/ AuthStatus
  \/ AuthRefresh
  \/ Dispatch
  \/ GetGitRoot
  \/ GetRemote
  \/ GetProjectId
  \/ ReadFile
  \/ GetAuthenticatedGraphql
  \/ GetOctokit
  \/ ListProjects
  \/ PromptCreate
  \/ PromptName
  \/ PromptSelect
  \/ CreateProject
  \/ CreateField
  \/ AddOptions
  \/ WriteFile
  \/ CreateIssue
  \/ QueryProject
  \/ AddDraft
  \/ AddItem
  \/ UpdateStatus
  \/ CheckoutMain
  \/ Pull
  \/ CheckoutBranch

Spec == Init /\ [][Next]_vars

\* ------------------------------------------------------------ properties
Ended == runs > 0 /\ todo = <<>>

LastEvent == IF log = <<>> THEN Call("", TRUE, 0, "") ELSE log[Len(log)]

IsUpdate(e) == e.op = "updateStatus"
IsGit(e) == e.op \in {"git checkout main", "git pull", "git checkout -b"}

\* an item in the "Todo" column with attached content
TodoWithContent(item) == item.status = "Todo" /\ item.kind \in {"issue", "draft"}

\* the run fetched the board and none of the fetched items is such an item
FetchedNoTodo ==
  /\ cmd = "next-task"
  /\ project # NoProject
  /\ \A i \in 1..Len(project.items) : ~TodoWithContent(project.items[i])

\* C1: next-task on a board none of whose fetched items is in "Todo" with
\* content attached issues no status update and runs no git command, and when
\* the board has the Status field with its "Todo" and "In Progress" options
\* the run ends with the 'No tasks found in the "Todo" column' error, exit 1.
C1_NoTodoNoSideEffects ==
  FetchedNoTodo =>
    /\ \A i \in 1..Len(log) : ~IsUpdate(log[i]) /\ ~IsGit(log[i])
    /\ board[project.number] = project.items
         \o SubSeq(board[project.number], Len(project.items) + 1,
                   Len(board[project.number]))
    /\ Ended
    /\ exitCode = 1
    /\ LastEvent.op = "stderr"
    /\ (project.field.kind = "select"
        /\ {"Todo", "In Progress"} \subseteq project.field.options)
         => LastEvent.s = "No tasks found in the Todo column"

\* C1 witness: a finished run that skipped a Todo item without content and
\* failed with the "no tasks" error
C1_Witness ==
  /\ Ended
  /\ FetchedNoTodo
  /\ LastEvent.s = "No tasks found in the Todo column"
  /\ \E i \in 1..Len(project.items) : project.items[i].status = "Todo"

\* the position of the first fetched item of board b in "Todo" with content
FirstTodo(b) ==
  LET S == {i \in 1..Len(b) : i <= FetchLimit /\ TodoWithContent(b[i])} IN
  IF S = {} THEN 0 ELSE CHOOSE i \in S : \A j \in S : i <= j

NewEvents == SubSeq(log', Len(log) + 1, Len(log'))

C2_Step ==
  (cmd = "next-task" /\ At("updateStatus")) =>
    LET b == board[project.number]
        k == FirstTodo(b)
    IN /\ k # 0
       /\ Len(SelectSeq(log', IsUpdate)) = 1
       /\ \E i \in 1..Len(NewEvents) :
            /\ IsUpdate(NewEvents[i])
            /\ NewEvents[i].n = b[k].id
            /\ NewEvents[i].s = "In Progress"
       /\ \A p \in ProjNums : p # project.number => board'[p] = board[p]
       /\ Len(board'[project.number]) = Len(b)
       /\ \A i \in 1..Len(b) :
            board'[project.number][i] =
              IF i = k /\ exitCode' # 1
              THEN [b[i] EXCEPT !.status = "In Progress"] ELSE b[i]

\* C2: the one status update of a next-task run targets the first fetched
\* item, in board order, that is in "Todo" and has content, and sets it to
\* "In Progress"; no other item and no other board changes.  Outside that
\* step a next-task run changes no board.
C2_FirstTodoAdvanced ==
  [][C2_Step /\ (cmd = "next-task" /\ ~At("updateStatus") /\ todo # <<>>
                  => board' = board)]_vars

\* C2 witness: the run advanced an item that is not at the top of the board
\* and left a later Todo item alone
C2_Witness ==
  /\ Ended /\ cmd = "next-task" /\ exitCode = 0
  /\ todoItem.id > 1
  /\ board[project.number][todoItem.id].status = "In Progress"
  /\ \E i \in 1..Len(board[project.number]) :
       i > todoItem.id /\ TodoWithContent(board[project.number][i])

IsSideEffect(e) == IsUpdate(e) \/ IsGit(e)
SideEffectOrder ==
  <<"updateStatus", "git checkout main", "git pull", "git checkout -b">>

\* C3: the side effects of a next-task run come in the order status update,
\* git checkout main, git pull, git checkout -b; nothing follows a failed
\* one; a failed git step ends the run with exit 1, the item still
\* "In Progress" and no second status update; exit 0 needs all four.
C3_OrderedNoRollback ==
  cmd = "next-task" =>
    LET E == SelectSeq(log, IsSideEffect) IN
    /\ Len(E) <= 4
    /\ \A i \in 1..Len(E) :
         /\ E[i].op = SideEffectOrder[i]
         /\ i < Len(E) => E[i].ok
    /\ (Ended /\ exitCode = 0 /\ E # <<>>) => (Len(E) = 4 /\ E[4].ok)
    /\ (E # <<>> /\ ~E[Len(E)].ok) => (Ended /\ exitCode = 1)
    /\ (Len(E) >= 2) =>
         /\ E[1].n = todoItem.id
         /\ board[project.number][todoItem.id].status = "In Progress"

\* C3 witness: git pull failed after the item was moved
C3_Witness ==
  /\ Ended /\ cmd = "next-task" /\ exitCode = 1
  /\ LastEvent.op = "stderr"
  /\ \E i \in 1..Len(log) : log[i].op = "git pull" /\ ~log[i].ok
  /\ board[project.number][todoItem.id].status = "In Progress"

\* a run that went through its command to the end
Successful ==
  /\ Ended /\ exitCode = 0
  /\ LastEvent.s # "Aborting. No project selected."

IsIssueCreate(e) == e.op = "createIssue"
IsItemAdd(e) == e.op = "addItem"
IsConfirmation(e) ==
  e.op = "print"
  /\ e.s \in {"Created issue", "Added issue to the project", "Set status"}
IsTaskEffect(e) ==
  IsIssueCreate(e) \/ IsItemAdd(e) \/ IsUpdate(e) \/ IsConfirmation(e)
     \/ e.op = "addDraft"

Ops(l) == [i \in 1..Len(l) |-> l[i].op]

Persisted ==
  /\ cfg.state = "ok"
  /\ IF rev = "latest" THEN MatchProjectId(cfg.lines) # <<>>
     ELSE MatchProjectNumber(cfg.lines).found

InTodo(step) == \E i \in 1..Len(todo') : todo'[i] = step

C5_Step ==
  /\ At("listProjects") => ((rev = "latest" => envId = <<>>) /\ ~Persisted)
  /\ (At("getProjectId") /\ envId # <<>>) =>
       /\ projectId' = envId
       /\ log' = log
       /\ ~InTodo("readFile") /\ ~InTodo("listProjects")
       /\ exitCode' = -1
  /\ (At("readFile") /\ Persisted) =>
       /\ IF rev = "latest" THEN projectId' = MatchProjectId(cfg.lines)
          ELSE projectNumber' = MatchProjectNumber(cfg.lines).number
       /\ ~InTodo("listProjects")
       /\ exitCode' = -1
       /\ log'[Len(log')].op = "readFile"

IsMutation(e) ==
  e.op \in {"createIssue", "addDraft", "addItem", "updateStatus",
            "createProject", "createField", "addOptions", "writeFile"}

Unconfigured == rev = "latest" /\ envId = <<>> /\ ~Persisted

PrintedIds == {log[i].n : i \in {j \in 1..Len(log) : log[j].s = "- ID"}}

ListedOk == \E i \in 1..Len(log) : log[i].op = "listProjects" /\ log[i].ok

IsRemote(e) ==
  e.op \in {"listProjects", "queryProject", "createIssue", "addDraft",
            "addItem", "updateStatus", "createProject", "createField",
            "addOptions"}

ReadFailed(state) ==
  \E i \in 1..Len(log) : log[i].op = "readFile" /\ log[i].s = state

\* C7 as stated: after a read error other than file-not-found the run is over
\* with exit 1 and no remote call made.
C7_Original ==
  ReadFailed("unreadable") =>
    /\ Ended /\ exitCode = 1
    /\ \A i \in 1..Len(log) : ~IsRemote(log[i])

C7_Step ==
  At("readFile") =>
    CASE cfg.state = "missing" ->
           todo' = ListSteps \o Rest /\ exitCode' = -1
      [] cfg.state = "unreadable" ->
           IF rev = "legacy"
           THEN /\ todo' = <<>> /\ exitCode' = 1
                /\ log'[Len(log')].op = "stderr"
                /\ \A i \in 1..Len(log') : ~IsRemote(log'[i])
           ELSE todo' = ListSteps \o Rest /\ exitCode' = -1
      [] OTHER -> TRUE

\* C7 amended: a missing config file counts as "not yet configured" and the
\* resolver goes on with the remote listing; any other read error is fatal
\* (exit 1, no remote call) in the earlier revision only: the latest
\* revision ignores it too and goes on with the remote listing.
C7_Amended == [][C7_Step]_vars

\* C7 witness: the earlier revision stopped on an unreadable config file
C7_Witness ==
  /\ rev = "legacy" /\ Ended /\ exitCode = 1
  /\ ReadFailed("unreadable")
  /\ LastEvent.op = "stderr" /\ LastEvent.s = "read error"

\* the calls a command makes when it runs to its end
CompletedOps ==
  CASE cmd = "new-idea" ->
         {"queryProject", "addDraft"}
           \cup (IF rev = "latest" THEN {"updateStatus"} ELSE {})
    [] cmd = "new-task" ->
         {"createIssue", "queryProject", "addItem"}
           \cup (IF rev = "latest" THEN {"updateStatus"} ELSE {})
    [] cmd = "next-task" ->
         {"queryProject", "updateStatus", "git checkout main", "git pull",
          "git checkout -b"}
    [] OTHER -> {"no such command"}

Completed ==
  \A o \in CompletedOps : \E i \in 1..Len(log) : log[i].op = o /\ log[i].ok

Declined == rev = "legacy" /\ LastEvent.s = "Aborting. No project selected."

\* a failed call other than the read of a config file that does not exist
IsError(e) == ~e.ok /\ ~(e.op = "readFile" /\ e.s = "missing")

\* a failed call other than a read the revision ignores
IsFatal(e) == IsError(e) /\ ~(e.op = "readFile" /\ rev = "latest")

\* C8 as stated: exit code 0 or 1; unknown command exits 1; every error
\* ends the run with an 'Error:' line and exit 1; exit 0 only after the
\* command ran all of its steps.
C8_Original ==
  runs > 0 =>
    /\ Ended => exitCode \in {0, 1}
    /\ (Ended /\ cmd \notin Commands \ {"status"}) => exitCode = 1
    /\ (\E i \in 1..Len(log) : IsError(log[i])) =>
         (Ended /\ exitCode = 1 /\ LastEvent.op = "stderr")
    /\ (Ended /\ exitCode = 0) => Completed

\* C8 amended: a run ends with exit code 0 or 1, set exactly when no step is
\* left; an unknown command prints a message and
\* exits 1; a missing title and every failed call end the run with an
\* 'Error:' line and exit 1, except a failed read of the config file that the
\* revision ignores (file not found; in the latest revision any read error);
\* exit 0 only after the command ran all of its steps or, in the interactive
\* revision, after the user declined to create a project, nothing mutated.
C8_Amended ==
  runs > 0 =>
    /\ exitCode \in {-1, 0, 1}
    /\ Ended <=> exitCode \in {0, 1}
    /\ (Ended /\ cmd \notin Commands \ {"status"}) =>
         /\ exitCode = 1
         /\ LastEvent.op = "stderr" \/ LastEvent.s = "Unknown command"
    /\ (Ended /\ cmd \in TitleCommands /\ JoinArgs(args) = <<>>) =>
         (exitCode = 1 /\ LastEvent.op = "stderr")
    /\ (\E i \in 1..Len(log) : IsFatal(log[i])) =>
         (Ended /\ exitCode = 1 /\ LastEvent.op = "stderr")
    /\ (Ended /\ exitCode = 0) =>
         \/ Completed
         \/ Declined /\ \A i \in 1..Len(log) : ~IsMutation(log[i])

\* C8 witness: the interactive revision exited 0 on a declined prompt
C8_Witness ==
  /\ Ended /\ exitCode = 0 /\ Declined /\ ~Completed
  /\ cmd = "new-task"

IsRefresh(e) == e.op = "gh auth refresh"

Refreshed == \E i \in 1..Len(log) : IsRefresh(log[i]) /\ log[i].ok

\* the scopes of the token when the run checked them
ScopesAtCheck ==
  IF Refreshed THEN SubSeq(ghScopes, 1, Len(ghScopes) - 1) ELSE ghScopes

HadProjectScope ==
  \E i \in 1..Len(ScopesAtCheck) : ScopesAtCheck[i] = ProjectScope

\* C9 as stated: the credential check comes first and nothing remote happens
\* before it passed; no scopes line is fatal; a token without the "project"
\* scope is refreshed once and the command goes on; a token with it is not
\* refreshed; nothing is retried.
C9_Claim ==
  (runs > 0 /\ log # <<>>) =>
    /\ log[1].op = "gh auth status"
    /\ \A i \in 2..Len(log) : log[i].op # "gh auth status"
    /\ (\E i \in 1..Len(log) : IsRemote(log[i])) => log[1].ok
    /\ Len(SelectSeq(log, IsRefresh)) <= 1
    /\ \A i \in 1..Len(log) : \A j \in (i + 1)..Len(log) :
         ~log[i].ok => log[j].op # log[i].op
    /\ (log[1].ok /\ ~ghPrints) =>
         (Ended /\ exitCode = 1 /\ Len(log) = 2 /\ LastEvent.op = "stderr")
    /\ (log[1].ok /\ ghPrints /\ Len(log) >= 2) =>
         IF HadProjectScope
         THEN \A i \in 1..Len(log) : ~IsRefresh(log[i])
         ELSE /\ log[2].s = "The project scope is missing"
              /\ Len(log) >= 3 => IsRefresh(log[3])
              /\ (Len(log) >= 3 /\ ~log[3].ok) =>
                   (Ended /\ exitCode = 1 /\ Len(log) = 4)
              /\ (Len(log) = 4 /\ log[3].ok) => (~Ended /\ todo # <<>>)

IsAuthToken(e) == e.op = "gh auth token"
IsGraphqlToken(e) == IsAuthToken(e) /\ e.s = "graphql"
IsRestToken(e) == IsAuthToken(e) /\ e.s = "rest"

\* C10 as stated: `gh auth token` runs once per invocation and the two
\* clients hold the same token.
C10_Original ==
  runs > 0 =>
    /\ Len(SelectSeq(log, IsAuthToken)) <= 1
    /\ (gqlTok # 0 /\ restTok # 0) => gqlTok = restTok

\* C10 amended: within one invocation each client (GraphQL, REST) obtains its
\* token from `gh auth token` at most once, when it is first needed, and
\* keeps it for the run: at most two calls per run; every GraphQL call uses
\* the GraphQL client's token and every REST call the REST client's.
C10_Amended ==
  runs > 0 =>
    LET G == SelectSeq(log, IsGraphqlToken)
        R == SelectSeq(log, IsRestToken)
    IN /\ Len(G) <= 1 /\ Len(R) <= 1
       /\ gqlTok # 0 <=> (G # <<>> /\ G[1].ok)
       /\ restTok # 0 <=> (R # <<>> /\ R[1].ok)
       /\ gqlTok # 0 => G[1].n = gqlTok
       /\ restTok # 0 => R[1].n = restTok
       /\ \A i \in 1..Len(log) :
            IsRemote(log[i]) =>
              /\ log[i].tok # 0
              /\ log[i].tok = IF log[i].op = "createIssue" THEN restTok
                              ELSE gqlTok

\* C10 witness: a new-task run whose two clients hold different tokens, both
\* used
C10_Witness ==
  /\ cmd = "new-task" /\ gqlTok # 0 /\ restTok # 0 /\ gqlTok # restTok
  /\ Len(SelectSeq(log, IsAuthToken)) = 2
  /\ \E i \in 1..Len(log) : log[i].op = "createIssue" /\ log[i].ok
  /\ \E i \in 1..Len(log) : log[i].op = "queryProject" /\ log[i].ok

Wrote(n) ==
  \E i \in 1..Len(log) : log[i].op = "writeFile" /\ log[i].ok /\ log[i].n = n

WroteAny == \E n \in ProjNums : Wrote(n)

\* the projects the user selected or created in this run
Chosen ==
  {log[i].n : i \in {j \in 1..Len(log) :
     /\ log[j].ok
     /\ \/ log[j].op = "prompt" /\ log[j].s = "select"
        \/ log[j].op = "createProject"}}

HasRead == \E i \in 1..Len(log) : log[i].op = "readFile"

NoFailure == \A i \in 1..Len(log) : log[i].ok /\ log[i].op # "stderr"

C11_Inv ==
  runs > 0 =>
    /\ rev = "latest" =>
         \A i \in 1..Len(log) : log[i].op \notin {"writeFile", "prompt"}
    /\ \A n \in ProjNums :
         Wrote(n) =>
           /\ rev = "legacy" /\ ListedOk /\ n \in Chosen
           /\ cfg.state = "ok"
           /\ MatchProjectNumber(cfg.lines) = [found |-> TRUE, number |-> n]
           /\ projectNumber = n
    /\ (rev = "legacy" /\ Ended /\ exitCode = 0 /\ ListedOk /\ ~Declined) =>
         WroteAny
    /\ (rev = "legacy" /\ Persisted /\ ~WroteAny /\ HasRead) =>
         LET n == MatchProjectNumber(cfg.lines).number IN
         /\ projectNumber = n
         /\ \A i \in 1..Len(log) :
              /\ log[i].op \notin {"listProjects", "prompt"}
              /\ (log[i].op = "queryProject" /\ log[i].ok) =>
                   log[i].n = IF n \in projects THEN n ELSE 0

C11_Step ==
  /\ cfg' # cfg => (rev = "legacy" /\ At("writeFile"))
  /\ (rev = "latest" /\ At("listProjects")) => todo' = <<>>

AddedBy(op, id) ==
  \E i \in 1..Len(log) : log[i].op = op /\ log[i].ok /\ log[i].n = id

\* the one status change of item `a` into item `b` is one of the three
Transition(a, b) ==
  \/ /\ cmd = "new-idea" /\ AddedBy("addDraft", a.id)
     /\ a.status = "none" /\ b.status = "Backlog"
  \/ /\ cmd = "new-task" /\ AddedBy("addItem", a.id)
     /\ a.status = "none" /\ b.status = "Todo"
  \/ /\ cmd = "next-task"
     /\ a.status = "Todo" /\ b.status = "In Progress"

Changed(p) ==
  {i \in 1..Len(board[p]) : board'[p][i].status # board[p][i].status}

BoardStep ==
  /\ \A p \in ProjNums :
       /\ Len(board'[p]) >= Len(board[p])
       /\ \A i \in 1..Len(board[p]) :
            /\ [board'[p][i] EXCEPT !.status = board[p][i].status] = board[p][i]
            /\ i \in Changed(p) =>
                 /\ At("updateStatus")
                 /\ Transition(board[p][i], board'[p][i])
                 /\ board'[p][i].status # "Done"
       /\ \A i \in (Len(board[p]) + 1)..Len(board'[p]) :
            board'[p][i].status = "none"
  /\ Cardinality({p \in ProjNums : Changed(p) # {}}) <= 1
  /\ \A p \in ProjNums : Cardinality(Changed(p)) <= 1

C12_Step == board' = board \/ BoardStep

C12_Inv == Len(SelectSeq(log, IsUpdate)) <= 1

\* C12: a step changes the status of at most one item, and only so: the
\* draft new-idea just added goes from unset to Backlog, the item new-task
\* just added from unset to Todo, an item next-task found in Todo to In
\* Progress; nothing is set to Done, no item is removed or otherwise edited,
\* and a run issues at most one status update.
C12_ThreeTransitions == []C12_Inv /\ [][C12_Step]_vars

\* C12 witness: next-task moved the first task to In Progress and a later
\* new-idea run set its new draft to Backlog
C12_Witness ==
  /\ runs = 2 /\ cmd = "new-idea" /\ Ended /\ exitCode = 0
  /\ Len(board[1]) = 3
  /\ board[1][1].title = TitleFix /\ board[1][1].status = "In Progress"
  /\ board[1][2].status = "Todo"
  /\ board[1][3].kind = "draft" /\ board[1][3].status = "Backlog"

\* the name the claim describes, position by position: of the lower-cased
\* title keep the word characters, the hyphens and the first character of
\* each run of whitespace, that one as a hyphen
Described(t) ==
  LET l == [i \in 1..Len(t) |-> ToLowerChar(t[i])]
      Keep == {i \in 1..Len(l) :
                 \/ IsWordChar(l[i]) \/ l[i] = "-"
                 \/ l[i] \in Whitespace /\ (i = 1 \/ l[i - 1] \notin Whitespace)}
      Kept(k) == CHOOSE i \in Keep : Cardinality({j \in Keep : j <= i}) = k
  IN [k \in 1..Cardinality(Keep) |->
        IF l[Kept(k)] \in Whitespace THEN "-" ELSE l[Kept(k)]]

BranchChars == Lower \cup Digits \cup {"_", "-"}

CheckedOut ==
  \E i \in 1..Len(log) : log[i].op = "git checkout -b" /\ log[i].ok

\* C13: for the title of the item next-task found, the derived name is the
\* described one, is made of lower-case letters, digits, underscores and
\* hyphens only, and derives to itself; "Fix the Login Bug!!" gives
\* "fix-the-login-bug"; the branch checked out is the derived name.
C13_BranchName ==
  todoItem # NoItem =>
       LET b == BranchName(todoItem.title) IN
       /\ BranchName(TitleLogin) =
            <<"f", "i", "x", "-", "t", "h", "e", "-", "l", "o", "g", "i", "n",
              "-", "b", "u", "g">>
       /\ b = Described(todoItem.title)
       /\ \A i \in 1..Len(b) : b[i] \in BranchChars
       /\ BranchName(b) = b
       /\ CheckedOut => branch = b

\* C13 witness: the branch of the title "Fix the Login Bug!!" was checked out
C13_Witness ==
  /\ CheckedOut /\ todoItem.title = TitleLogin
  /\ branch = BranchName(TitleLogin)
  /\ Len(branch) = 17

\* the errors of the checks after the project query
ProjectErrors ==
  {"Could not find Project", "Project is missing the Status field",
   "TypeError", "Project is missing Todo or In Progress options",
   "Project is missing the Status field or it is not single select",
   "Project is missing the option"}

FailedOnProject ==
  /\ Ended /\ exitCode = 1
  /\ LastEvent.op = "stderr" /\ LastEvent.s \in ProjectErrors

IsCreation(e) ==
  e.ok /\ e.op \in {"createIssue", "addDraft", "addItem", "updateStatus"}

\* C14 as stated: in the latest revision a run of new-idea, new-task or
\* next-task that fails on the project, its Status field or the needed
\* option has created no issue, added no item and updated no status.
C14_Claim ==
  (rev = "latest" /\ cmd \in {"new-idea", "new-task", "next-task"}
     /\ FailedOnProject) =>
    \A i \in 1..Len(log) : ~IsCreation(log[i])

\* the board of the project the run queried
Queried == IF project = NoProject THEN <<>> ELSE board[project.number]

NoTasks ==
  LastEvent.op = "stderr" /\ LastEvent.s = "No tasks found in the Todo column"

\* the position on the board of the item with identifier `id`
PositionOf(id) == First({i \in 1..Len(Queried) : Queried[i].id = id})

\* C15 as stated: next-task reports "no tasks" only when no item of the
\* whole board is in Todo with content, and the item it advances is the
\* first such item of the whole board, however many items precede it.
C15_Claim ==
  cmd = "next-task" =>
    /\ NoTasks => \A i \in 1..Len(Queried) : ~TodoWithContent(Queried[i])
    /\ \A k \in 1..Len(log) :
         (log[k].op = "updateStatus" /\ log[k].ok) =>
           \A i \in 1..(PositionOf(log[k].n) - 1) :
             ~TodoWithContent(Queried[i])
====
